---- MODULE Spec2Model ----
(***************************************************************************)
(* A model of the two hash tables of gvdb-rs:                              *)
(*   - the writer's SimpleHashTable (gvdb/src/write/hash.rs): bucket heads *)
(*     and items chained by reference-counted next links;                  *)
(*   - the reader's GvdbHashTable (src/gvdb/hash.rs): bloom words, bucket  *)
(*     array and hash items read from a byte slice.                        *)
(* A u32 is the pair <<hi, lo>> of its 16-bit halves, so that arithmetic   *)
(* modulo 2^32 stays exact.                                                *)
(***************************************************************************)
EXTENDS Integers, Sequences, FiniteSets, TLC

VARIABLES
    buckets,    \* writer: Vec<Option<Rc<GvdbBuilderItem>>>, 0 is None, else an item id
    items,      \* writer: the live items, id -> [key, hash_value, value, next]
    n_items,    \* writer: SimpleHashTable::n_items
    panicked,   \* writer: an operation panicked (remainder by zero buckets)
    hist,       \* the operations called so far, each with what it returned
    tbl,        \* reader: the GvdbHashTable, as decoded from data at table_ptr
    rpc,        \* reader: "idle", "names" (inside get_names) or "done"
    gn,         \* reader: get_names' locals (names, inserted) and its result
    lk,         \* reader: the key looked up and what get_value returned
    fb,         \* reader: for_bytes' arguments (data, table_ptr) and its result
    conv,       \* reader: the low-level error given to GvdbReaderError::from
                \* and the error it returned
    dp          \* reader: deref_pointer's arguments (with the data's length)
                \* and what it returned

wvars == <<buckets, items, n_items, panicked, hist>>

rvars == <<tbl, rpc, gn, lk, fb, conv, dp>>

vars == <<buckets, items, n_items, panicked, hist, tbl, rpc, gn, lk, fb, conv, dp>>

----------------------------------------------------------------------------
(* Bounds and input domains *)

\* the longest sequence of writer operations explored
MaxOps == 4

\* the largest bucket count a writer table is constructed with
MaxBuckets == 3

\* keys of the writer: "a", "b", "c" as byte strings
Keys == {<<97>>, <<98>>, <<99>>}

\* values stored by the writer
Values == {1, 2}

\* the most hash items a reader table holds
MaxHashItems == 3

\* the longest key looked up in a reader table
MaxKeyLen == 3

\* the bytes reader keys are made of: 'a', 'b'
Bytes == {97, 98}

\* the byte strings of length 0..n
BytesUpTo(n) == UNION {[1..l -> Bytes] : l \in 0..n}

\* key suffixes stored in hash items: "a", "b"
Suffixes == [1..1 -> Bytes]

\* the most buckets of a well-formed reader table
MaxHashBuckets == 2

\* the most bloom words of a well-formed reader table
MaxBloomWords == 2

----------------------------------------------------------------------------
(* u32 arithmetic *)

Half == 65536

\* x mod n for a u32 x and a small positive n
U32Mod(x, n) == (((x[1] % n) * (Half % n)) + (x[2] % n)) % n

\* the u32 with the given small value
U32Of(i) == <<i \div Half, i % Half>>

\* One step of djb_hash: h * 33 + b, wrapping at 2^32
DjbStep(h, b) ==
    LET lo == h[2] * 33 + b
        hi == h[1] * 33 + (lo \div Half)
    IN  <<hi % Half, lo % Half>>

RECURSIVE DjbFrom(_, _)
DjbFrom(h, bytes) ==
    IF bytes = <<>> THEN h ELSE DjbFrom(DjbStep(h, Head(bytes)), Tail(bytes))

\* djb_hash(key): seed 5381, h = h * 33 + b for every byte in order
djb_hash(key) == DjbFrom(<<0, 5381>>, key)

----------------------------------------------------------------------------
(* Writer: SimpleHashTable *)

n_buckets == Len(buckets)

\* hash_bucket taking the hash's low byte alone
HashBucketLowByte(hash_value) ==
    IF n_buckets = 0 THEN -1 ELSE (hash_value[2] % 256) % n_buckets

\* hash_bucket: hash_value % buckets.len(); the remainder by zero panics
hash_bucket(hash_value) ==
    IF n_buckets = 0 THEN -1 ELSE U32Mod(hash_value, n_buckets)

\* Rc::new: an id no live item has
NewId == CHOOSE i \in 1..(MaxOps + 1) : i \notin DOMAIN items

\* get_from_bucket's loop as it would be if it looked at the head only
GetFromBucketHeadOnly(its, item, previous, key) ==
    IF item = 0 THEN <<FALSE, 0, 0>>
    ELSE IF its[item].key = key THEN <<TRUE, previous, item>>
    ELSE <<FALSE, 0, 0>>

\* the while loop of get_from_bucket, from `item` with `previous` behind it:
\* <<found, previous, item>>
RECURSIVE GetFromBucketLoop(_, _, _, _)
GetFromBucketLoop(its, item, previous, key) ==
    IF item = 0 THEN <<FALSE, 0, 0>>
    ELSE IF its[item].key = key THEN <<TRUE, previous, item>>
    ELSE GetFromBucketLoop(its, its[item].next, item, key)

\* get_from_bucket(key, bucket): buckets.get(bucket)? then the loop
GetFromBucketIn(bks, its, key, bucket) ==
    IF bucket < 0 \/ bucket >= Len(bks) THEN <<FALSE, 0, 0>>
    ELSE GetFromBucketLoop(its, bks[bucket + 1], 0, key)

get_from_bucket(key, bucket) == GetFromBucketIn(buckets, items, key, bucket)

\* get(key) on the table (bks, its): the id of the item found, 0 for None
GetIn(bks, its, key) ==
    GetFromBucketIn(bks, its, key, U32Mod(djb_hash(key), Len(bks)))[3]

get(key) == GetIn(buckets, items, key)

\* the function f without x in its domain
Drop(f, x) == [i \in DOMAIN f \ {x} |-> f[i]]

\* insert as it would be if an insert over the head's own key kept the old
\* head and dropped the new item
InsertEffectKeepOld(key, value) ==
    LET hash_value == djb_hash(key)
        bucket == hash_bucket(hash_value)
        item == NewId
        replaced_item == buckets[bucket + 1]
        new(next) == [key |-> key, hash_value |-> hash_value,
                      value |-> value, next |-> next]
    IN  IF replaced_item # 0
        THEN IF items[replaced_item].key = key
             THEN UNCHANGED <<buckets, items, n_items>>
             ELSE /\ buckets' = [buckets EXCEPT ![bucket + 1] = item]
                  /\ items' = items @@ (item :> new(replaced_item))
                  /\ n_items' = n_items + 1
        ELSE /\ buckets' = [buckets EXCEPT ![bucket + 1] = item]
             /\ items' = items @@ (item :> new(0))
             /\ n_items' = n_items + 1

\* insert as it would be if a new head were linked to itself instead of to
\* the head it replaces
InsertEffectSelfLink(key, value) ==
    LET hash_value == djb_hash(key)
        bucket == hash_bucket(hash_value)
        item == NewId
        replaced_item == buckets[bucket + 1]
        new(next) == [key |-> key, hash_value |-> hash_value,
                      value |-> value, next |-> next]
    IN  /\ buckets' = [buckets EXCEPT ![bucket + 1] = item]
        /\ IF replaced_item # 0
           THEN IF items[replaced_item].key = key
                THEN /\ items' = Drop(items, replaced_item) @@
                                 (item :> new(items[replaced_item].next))
                     /\ n_items' = n_items
                ELSE /\ items' = items @@ (item :> new(item))
                     /\ n_items' = n_items + 1
           ELSE /\ items' = items @@ (item :> new(0))
                /\ n_items' = n_items + 1

\* insert as it would be if replacing the head's value counted as a new item
InsertEffectCountsReplace(key, value) ==
    LET hash_value == djb_hash(key)
        bucket == hash_bucket(hash_value)
        item == NewId
        replaced_item == buckets[bucket + 1]
        new(next) == [key |-> key, hash_value |-> hash_value,
                      value |-> value, next |-> next]
    IN  /\ buckets' = [buckets EXCEPT ![bucket + 1] = item]
        /\ n_items' = n_items + 1
        /\ IF replaced_item # 0
           THEN IF items[replaced_item].key = key
                THEN items' = Drop(items, replaced_item) @@
                              (item :> new(items[replaced_item].next))
                ELSE items' = items @@ (item :> new(replaced_item))
           ELSE items' = items @@ (item :> new(0))

\* the effect of insert(key, value) on buckets, items and n_items
InsertEffect(key, value) ==
    LET hash_value == djb_hash(key)
        bucket == hash_bucket(hash_value)
        item == NewId
        replaced_item == buckets[bucket + 1]
        new(next) == [key |-> key, hash_value |-> hash_value,
                      value |-> value, next |-> next]
    IN  /\ buckets' = [buckets EXCEPT ![bucket + 1] = item]
        /\ IF replaced_item # 0
           THEN IF items[replaced_item].key = key
                THEN \* Replace: the new head takes the old head's next
                     /\ items' = Drop(items, replaced_item) @@
                                 (item :> new(items[replaced_item].next))
                     /\ n_items' = n_items
                ELSE \* Insert: the old head follows the new one
                     /\ items' = items @@ (item :> new(replaced_item))
                     /\ n_items' = n_items + 1
           ELSE \* Insert to empty bucket
                /\ items' = items @@ (item :> new(0))
                /\ n_items' = n_items + 1

Insert(key, value) ==
    /\ ~panicked
    /\ Len(hist) < MaxOps
    /\ IF n_buckets = 0
       THEN /\ panicked' = TRUE
            /\ UNCHANGED <<buckets, items, n_items>>
       ELSE /\ InsertEffect(key, value)
            /\ UNCHANGED panicked
    /\ hist' = Append(hist, [op |-> "insert", key |-> key, value |-> value,
                             ret |-> n_buckets # 0])

\* remove as it would be if it cut the chain at the item instead of linking
\* the item's next in its place
RemoveEffectCutChain(bucket, previous, item) ==
    /\ IF previous # 0
       THEN /\ items' = [Drop(items, item) EXCEPT ![previous].next = 0]
            /\ UNCHANGED buckets
       ELSE /\ buckets' = [buckets EXCEPT ![bucket + 1] = 0]
            /\ items' = Drop(items, item)
    /\ n_items' = n_items - 1

\* remove as it would be without the decrement of n_items
RemoveEffectNoCount(bucket, previous, item) ==
    /\ IF previous # 0
       THEN /\ items' = [Drop(items, item) EXCEPT ![previous].next = items[item].next]
            /\ UNCHANGED buckets
       ELSE /\ buckets' = [buckets EXCEPT ![bucket + 1] = items[item].next]
            /\ items' = Drop(items, item)
    /\ UNCHANGED n_items

\* the effect of remove(key) when get_from_bucket found (previous, item)
RemoveEffect(bucket, previous, item) ==
    /\ IF previous # 0
       THEN /\ items' = [Drop(items, item) EXCEPT ![previous].next = items[item].next]
            /\ UNCHANGED buckets
       ELSE /\ buckets' = [buckets EXCEPT ![bucket + 1] = items[item].next]
            /\ items' = Drop(items, item)
    /\ n_items' = n_items - 1

Remove(key) ==
    /\ ~panicked
    /\ Len(hist) < MaxOps
    /\ IF n_buckets = 0
       THEN /\ panicked' = TRUE
            /\ UNCHANGED <<buckets, items, n_items>>
            /\ hist' = Append(hist, [op |-> "remove", key |-> key, value |-> 0,
                                     ret |-> FALSE])
       ELSE LET bucket == hash_bucket(djb_hash(key))
                found == get_from_bucket(key, bucket)
            IN  /\ IF found[1]
                   THEN RemoveEffect(bucket, found[2], found[3])
                   ELSE UNCHANGED <<buckets, items, n_items>>
                /\ UNCHANGED panicked
                /\ hist' = Append(hist, [op |-> "remove", key |-> key, value |-> 0,
                                         ret |-> found[1]])

----------------------------------------------------------------------------
(* Writer: the iterators.  An iterator is [bucket, last_item]; next() gives *)
(* [it |-> the iterator afterwards, out |-> <<>> for None, else the item]   *)

\* iter() and iter_bucket(bucket): the iterator as constructed
NewIter(bucket) == [bucket |-> bucket, last_item |-> 0]

\* SimpleHashTableBucketIter::next
BucketIterNext(it) ==
    IF it.last_item # 0
    THEN IF items[it.last_item].next # 0
         THEN [it |-> [it EXCEPT !.last_item = items[it.last_item].next],
               out |-> <<items[it.last_item].next>>]
         ELSE [it |-> it, out |-> <<>>]
    ELSE IF it.bucket < n_buckets /\ buckets[it.bucket + 1] # 0
         THEN [it |-> [it EXCEPT !.last_item = buckets[it.bucket + 1]],
               out |-> <<buckets[it.bucket + 1]>>]
         ELSE [it |-> it, out |-> <<>>]

\* the while loop of SimpleHashTableIter::next
RECURSIVE IterScan(_)
IterScan(it) ==
    IF it.bucket >= n_buckets THEN [it |-> it, out |-> <<>>]
    ELSE IF buckets[it.bucket + 1] # 0
         THEN [it |-> [it EXCEPT !.last_item = buckets[it.bucket + 1]],
               out |-> <<<<it.bucket, buckets[it.bucket + 1]>>>>]
         ELSE IterScan([bucket |-> it.bucket + 1, last_item |-> 0])

\* next() as it would be without `self.bucket += 1` at the end of a chain
IterNextSameBucket(it) ==
    IF it.last_item # 0
    THEN IF items[it.last_item].next # 0
         THEN [it |-> [it EXCEPT !.last_item = items[it.last_item].next],
               out |-> <<<<it.bucket, items[it.last_item].next>>>>]
         ELSE IterScan(it)
    ELSE IterScan(it)

\* SimpleHashTableIter::next
IterNext(it) ==
    IF it.last_item # 0
    THEN IF items[it.last_item].next # 0
         THEN [it |-> [it EXCEPT !.last_item = items[it.last_item].next],
               out |-> <<<<it.bucket, items[it.last_item].next>>>>]
         ELSE IterScan([it EXCEPT !.bucket = it.bucket + 1])
    ELSE IterScan(it)

\* the caller's loop over an iterator: next() until it gives None, at most
\* `fuel` times; done tells whether None was reached
RECURSIVE Drain(_, _, _, _)
Drain(whole, it, fuel, acc) ==
    LET r == IF whole THEN IterNext(it) ELSE BucketIterNext(it)
    IN  IF r.out = <<>> THEN [seq |-> acc, done |-> TRUE]
        ELSE IF fuel = 0 THEN [seq |-> acc, done |-> FALSE]
        ELSE Drain(whole, r.it, fuel - 1, acc \o r.out)

\* more calls of next() than there are items
Fuel == Cardinality(DOMAIN items) + 1

\* iter().collect()
IterAll == Drain(TRUE, NewIter(0), Fuel, <<>>)

\* iter_bucket(bucket).collect()
IterBucketAll(bucket) == Drain(FALSE, NewIter(bucket), Fuel, <<>>)

----------------------------------------------------------------------------
(* Reader: GvdbHashTable.  The table is the record decoded from the bytes:  *)
(*   n_bloom_words, n_buckets : the header                                  *)
(*   bloom_words              : the u32 words after the header              *)
(*   hash_buckets             : the bucket array (item indices)             *)
(*   hash_items               : the items [hash_value, parent, key,         *)
(*                              key_err, typ, value], key being the bytes   *)
(*                              at key_start..key_start+key_size            *)
(*   data_len                 : data.len()                                  *)
(* Option is <<>> for None and <<x>> for Some(x).                           *)

\* 0xffffffff
NoParent == <<65535, 65535>>

\* a u32 compared with a usize below 2^16: x < n, x > n
U32Lt(x, n) == x[1] = 0 /\ x[2] < n

U32Gt(x, n) == x[1] > 0 \/ x[2] > n

\* bit b of the u32 word w is set
Bit(w, b) ==
    IF b < 16 THEN (w[2] \div (2 ^ b)) % 2 = 1
    ELSE (w[1] \div (2 ^ (b - 16))) % 2 = 1

\* n_hash_items: (table_ptr.end - hash_items_offset) / 24
n_hash_items(t) == Len(t.hash_items)

\* get_hash_item(index): the item, or Err(DataOffset) past the data
get_hash_item(t, index) ==
    IF index < Len(t.hash_items)
    THEN [ok |-> TRUE, item |-> t.hash_items[index + 1]]
    ELSE [ok |-> FALSE, err |-> "DataOffset"]

\* get_key(item): the bytes of the item's key as a String; key_err names
\* the failure of a key outside the data (DataOffset) or not UTF-8 (Utf8)
get_key(t, item) ==
    IF item.key_err = "" THEN [ok |-> TRUE, name |-> item.key]
    ELSE [ok |-> FALSE, err |-> item.key_err]

\* get_hash(index): the bucket array entry, None past the data
get_hash(t, index) ==
    IF index < Len(t.hash_buckets) THEN <<t.hash_buckets[index + 1]>> ELSE <<>>

\* bloom_shift
bloom_shift == 0

\* hash_value >> shift, & 31
ShiftAnd31(hash_value, shift) ==
    IF shift = 0 THEN hash_value[2] % 32
    ELSE ((hash_value[1] * (Half \div (2 ^ shift))) + (hash_value[2] \div (2 ^ shift))) % 32

\* (hash_value / 32) % n_bloom_words
BloomWordIndex(hash_value, n) == ((hash_value[1] * 2048) + (hash_value[2] \div 32)) % n

\* bloom_filter testing the bit after h & 31
BloomFilterNextBit(t, hash_value) ==
    IF t.n_bloom_words = 0 THEN TRUE
    ELSE LET word == BloomWordIndex(hash_value, t.n_bloom_words)
             bloom_word == t.bloom_words[word + 1]
         IN  Bit(bloom_word, (hash_value[2] + 1) % 32)

\* bloom_filter(hash_value)
bloom_filter(t, hash_value) ==
    IF t.n_bloom_words = 0 THEN TRUE
    ELSE LET word == BloomWordIndex(hash_value, t.n_bloom_words)
             mask == {hash_value[2] % 32, ShiftAnd31(hash_value, bloom_shift)}
             bloom_word == t.bloom_words[word + 1]
         IN  \A b \in mask : Bit(bloom_word, b)

\* x & y, bit by bit
RECURSIVE BitAnd(_, _)
BitAnd(x, y) ==
    IF x = 0 \/ y = 0 THEN 0
    ELSE (x % 2) * (y % 2) + 2 * BitAnd(x \div 2, y \div 2)

\* deref_pointer testing the alignment before start > end
DerefPointerAlignmentFirst(t, pointer, alignment) ==
    IF BitAnd(pointer.start, alignment - 1) # 0
    THEN [ok |-> FALSE, err |-> "DataAlignment"]
    ELSE IF pointer.start > pointer.end THEN [ok |-> FALSE, err |-> "DataOffset"]
    ELSE IF pointer.end > t.data_len THEN [ok |-> FALSE, err |-> "DataOffset"]
    ELSE [ok |-> TRUE, data |-> <<pointer.start, pointer.end>>]

\* deref_pointer(pointer, alignment): Ok with the range, or the error
deref_pointer(t, pointer, alignment) ==
    IF pointer.start > pointer.end THEN [ok |-> FALSE, err |-> "DataOffset"]
    ELSE IF BitAnd(pointer.start, alignment - 1) # 0
         THEN [ok |-> FALSE, err |-> "DataAlignment"]
    ELSE IF pointer.end > t.data_len THEN [ok |-> FALSE, err |-> "DataOffset"]
    ELSE [ok |-> TRUE, data |-> <<pointer.start, pointer.end>>]

\* check_name(item, key): "true", "false", or "overflow" when the recursion
\* never returns.  The key is the same in every call, so a chain of more
\* than n_hash_items calls has met an item twice and repeats for ever.
RECURSIVE CheckNameRec(_, _, _, _)
CheckNameRec(t, item, key, depth) ==
    LET this_key == get_key(t, item)
    IN  IF ~this_key.ok THEN "false"
        ELSE IF key # this_key.name THEN "false"
        ELSE IF Len(key) = Len(this_key.name) /\ item.parent = NoParent THEN "true"
        ELSE IF U32Lt(item.parent, n_hash_items(t)) /\ Len(key) > 0
             THEN LET parent_item == get_hash_item(t, item.parent[2])
                  IN  IF ~parent_item.ok THEN "false"
                      ELSE IF depth >= n_hash_items(t) THEN "overflow"
                      ELSE CheckNameRec(t, parent_item.item, key, depth + 1)
        ELSE "false"

check_name(t, item, key) == CheckNameRec(t, item, key, 0)

Min(a, b) == IF a < b THEN a ELSE b

\* the while loop of table_lookup as it would be without the test of typ
RECURSIVE LookupLoopAnyTyp(_, _, _, _, _, _)
LookupLoopAnyTyp(t, key, typ, hash_value, itemno, lastno) ==
    IF itemno >= lastno THEN <<>>
    ELSE LET item == get_hash_item(t, itemno)
         IN  IF ~item.ok THEN <<>>
             ELSE IF hash_value = item.item.hash_value
                  THEN LET named == check_name(t, item.item, key)
                       IN  IF named = "overflow" THEN <<-1>>
                           ELSE IF named = "true" THEN <<itemno>>
                           ELSE LookupLoopAnyTyp(t, key, typ, hash_value, itemno + 1, lastno)
                  ELSE LookupLoopAnyTyp(t, key, typ, hash_value, itemno + 1, lastno)

\* the while loop of table_lookup: <<>> for None, <<itemno>> for Some(item),
\* <<-1>> when check_name never returns
RECURSIVE LookupLoop(_, _, _, _, _, _)
LookupLoop(t, key, typ, hash_value, itemno, lastno) ==
    IF itemno >= lastno THEN <<>>
    ELSE LET item == get_hash_item(t, itemno)
         IN  IF ~item.ok THEN <<>>
             ELSE IF hash_value = item.item.hash_value
                  THEN LET named == check_name(t, item.item, key)
                       IN  IF named = "overflow" THEN <<-1>>
                           ELSE IF named = "true" /\ item.item.typ = typ
                                THEN <<itemno>>
                           ELSE LookupLoop(t, key, typ, hash_value, itemno + 1, lastno)
                  ELSE LookupLoop(t, key, typ, hash_value, itemno + 1, lastno)

\* table_lookup(key, typ): <<>> for None, <<itemno>> for the item found,
\* <<-1>> when the call never returns
table_lookup(t, key, typ) ==
    IF t.n_buckets = 0 \/ n_hash_items(t) = 0 THEN <<>>
    ELSE LET hash_value == djb_hash(key)
         IN  IF ~bloom_filter(t, hash_value) THEN <<>>
             ELSE LET bucket == U32Mod(hash_value, t.n_buckets)
                      first == get_hash(t, bucket)
                      next == get_hash(t, bucket + 1)
                  IN  IF first = <<>> THEN <<>>
                      ELSE IF bucket = t.n_buckets - 1
                           THEN LookupLoop(t, key, typ, hash_value, first[1],
                                           n_hash_items(t))
                      ELSE IF next = <<>> THEN <<>>
                      ELSE LookupLoop(t, key, typ, hash_value, first[1],
                                      Min(next[1], n_hash_items(t)))

\* the get_hash_item calls of table_lookup's while loop, in order: one per
\* item from itemno on, up to the item the loop returns at
RECURSIVE LookupLoopReads(_, _, _, _, _, _)
LookupLoopReads(t, key, typ, hash_value, itemno, lastno) ==
    IF itemno >= lastno THEN <<>>
    ELSE <<[read |-> "hash_item", index |-> itemno]>> \o
         (IF LookupLoop(t, key, typ, hash_value, itemno, itemno + 1) # <<>> THEN <<>>
          ELSE LookupLoopReads(t, key, typ, hash_value, itemno + 1, lastno))

\* table_lookup reading the bucket array before it asks the bloom filter
TableLookupReadsBucketFirst(t, key, typ) ==
    IF t.n_buckets = 0 \/ n_hash_items(t) = 0 THEN <<>>
    ELSE LET hash_value == djb_hash(key)
             bucket == U32Mod(hash_value, t.n_buckets)
         IN  <<[read |-> "hash", index |-> bucket]>> \o
             (IF t.n_bloom_words = 0 THEN <<>>
              ELSE <<[read |-> "bloom_word",
                      index |-> BloomWordIndex(hash_value, t.n_bloom_words)]>>)

\* the reads of the table's data that table_lookup(key, typ) makes, in the
\* order of the calls: get_bloom_word, get_hash, get_hash_item
TableLookupReads(t, key, typ) ==
    IF t.n_buckets = 0 \/ n_hash_items(t) = 0 THEN <<>>
    ELSE LET hash_value == djb_hash(key)
             bloom == IF t.n_bloom_words = 0 THEN <<>>
                      ELSE <<[read |-> "bloom_word",
                              index |-> BloomWordIndex(hash_value, t.n_bloom_words)]>>
             bucket == U32Mod(hash_value, t.n_buckets)
             first == get_hash(t, bucket)
             next == get_hash(t, bucket + 1)
         IN  IF ~bloom_filter(t, hash_value) THEN bloom
             ELSE IF first = <<>> THEN bloom \o <<[read |-> "hash", index |-> bucket]>>
             ELSE IF bucket = t.n_buckets - 1
                  THEN bloom \o <<[read |-> "hash", index |-> bucket]>> \o
                       LookupLoopReads(t, key, typ, hash_value, first[1], n_hash_items(t))
             ELSE IF next = <<>>
                  THEN bloom \o <<[read |-> "hash", index |-> bucket],
                                  [read |-> "hash", index |-> bucket + 1]>>
             ELSE bloom \o <<[read |-> "hash", index |-> bucket],
                             [read |-> "hash", index |-> bucket + 1]>> \o
                  LookupLoopReads(t, key, typ, hash_value, first[1],
                                  Min(next[1], n_hash_items(t)))

\* value_from_item(item): Some(the variant over the bytes) or None
value_from_item(t, item) ==
    LET data == deref_pointer(t, item.value, 8)
    IN  IF data.ok THEN <<data.data>> ELSE <<>>

\* get_value(key): [kind |-> "None"], [kind |-> "Some", itemno, data], or
\* [kind |-> "overflow"] when the lookup never returns
get_value(t, key) ==
    LET found == table_lookup(t, key, "v")
    IN  IF found = <<>> THEN [kind |-> "None"]
        ELSE IF found[1] < 0 THEN [kind |-> "overflow"]
        ELSE LET value == value_from_item(t, t.hash_items[found[1] + 1])
             IN  IF value = <<>> THEN [kind |-> "None"]
                 ELSE [kind |-> "Some", itemno |-> found[1], data |-> value[1]]

\* the body of get_names' for loop from `index` on; st is [names, inserted,
\* err], err being "" until the loop returns an error
RECURSIVE NamesRound(_, _, _)
NamesRound(t, index, st) ==
    LET count == n_hash_items(t)
        item == get_hash_item(t, index)
        parent == item.item.parent
        name == get_key(t, item.item)
    IN  IF index >= count \/ st.err # "" THEN st
        ELSE IF ~item.ok THEN [st EXCEPT !.err = item.err]
        ELSE IF (parent = NoParent \/ (U32Lt(parent, count) /\ st.names[parent[2] + 1] # <<>>))
                /\ ~name.ok
             THEN [st EXCEPT !.err = name.err]
        ELSE IF parent = NoParent
             THEN \* root item
                  NamesRound(t, index + 1,
                      [st EXCEPT !.names[index + 1] = <<name.name>>,
                                 !.inserted = st.inserted + 1])
        ELSE IF U32Lt(parent, count) /\ st.names[parent[2] + 1] # <<>>
             THEN \* We already came across this item
                  LET parent_name == st.names[parent[2] + 1][1]
                      full_name == name.name \o parent_name
                  IN  NamesRound(t, index + 1,
                          [st EXCEPT !.names[index + 1] = <<full_name>>,
                                     !.inserted = st.inserted + 1])
        ELSE IF U32Gt(parent, count)
             THEN [st EXCEPT !.err = "DataError"]
        ELSE NamesRound(t, index + 1, st)

\* get_names up to the while loop: no names, inserted = 0
GetNamesStart ==
    /\ rpc = "idle"
    /\ rpc' = "names"
    /\ gn' = [names |-> [i \in 1..n_hash_items(tbl) |-> <<>>],
              inserted |-> 0, rounds |-> 0, result |-> "running"]
    /\ UNCHANGED <<tbl, lk, fb, conv, dp>>

\* a round of the while loop without the test of last_inserted
GetNamesRoundNoProgressTest ==
    /\ rpc = "names"
    /\ gn.inserted < n_hash_items(tbl)
    /\ LET st == NamesRound(tbl, 0, [names |-> gn.names,
                                     inserted |-> gn.inserted, err |-> ""])
       IN  IF st.err # ""
           THEN /\ gn' = [gn EXCEPT !.names = st.names, !.inserted = st.inserted,
                                    !.result = st.err, !.rounds = gn.rounds + 1]
                /\ rpc' = "done"
           ELSE /\ gn' = [gn EXCEPT !.names = st.names, !.inserted = st.inserted,
                                    !.rounds = gn.rounds + 1]
                /\ rpc' = "names"
    /\ UNCHANGED <<tbl, lk, fb, conv, dp>>

\* one round of the while loop: the for loop, then the progress test
GetNamesRound ==
    /\ rpc = "names"
    /\ gn.inserted < n_hash_items(tbl)
    /\ LET st == NamesRound(tbl, 0, [names |-> gn.names,
                                     inserted |-> gn.inserted, err |-> ""])
       IN  IF st.err # ""
           THEN /\ gn' = [gn EXCEPT !.names = st.names, !.inserted = st.inserted,
                                    !.result = st.err, !.rounds = gn.rounds + 1]
                /\ rpc' = "done"
           ELSE IF st.inserted = gn.inserted
           THEN /\ gn' = [gn EXCEPT !.result = "InvalidData", !.rounds = gn.rounds + 1]
                /\ rpc' = "done"
           ELSE /\ gn' = [gn EXCEPT !.names = st.names, !.inserted = st.inserted,
                                    !.rounds = gn.rounds + 1]
                /\ rpc' = "names"
    /\ UNCHANGED <<tbl, lk, fb, conv, dp>>

\* after the while loop: unwrap every name; unwrap of None panics
GetNamesReturn ==
    /\ rpc = "names"
    /\ gn.inserted >= n_hash_items(tbl)
    /\ gn' = [gn EXCEPT !.result =
                 IF \E i \in 1..Len(gn.names) : gn.names[i] = <<>>
                 THEN "panic" ELSE "Ok"]
    /\ rpc' = "done"
    /\ UNCHANGED <<tbl, lk, fb, conv, dp>>

\* a call of get_value(key)
Lookup(key) ==
    /\ rpc = "idle"
    /\ lk' = [key |-> key, res |-> get_value(tbl, key),
              reads |-> TableLookupReads(tbl, key, "v")]
    /\ rpc' = "done"
    /\ UNCHANGED <<tbl, gn, fb, conv, dp>>

----------------------------------------------------------------------------
(* for_bytes(data, table_ptr), over the lengths and offsets only: f is      *)
(* [data_len, table_ptr, header], header being the two words at start       *)

HashHeaderSize == 8
HashItemSize == 24
U32Size == 4

\* hash_header(data, pointer): the eight bytes at start, or DataOffset
hash_header(f) ==
    IF f.table_ptr.start + HashHeaderSize > f.data_len
    THEN [ok |-> FALSE, err |-> "DataOffset"]
    ELSE [ok |-> TRUE, header |-> f.header]

data_offset(f) == f.table_ptr.start

bloom_words_offset(f) == data_offset(f) + HashHeaderSize

bloom_words_end(f) == bloom_words_offset(f) + f.header.n_bloom_words * U32Size

hash_buckets_offset(f) == bloom_words_end(f)

hash_buckets_end(f) == hash_buckets_offset(f) + f.header.n_buckets * U32Size

hash_items_offset(f) == hash_buckets_end(f)

\* the length of deref_pointer's slice, table_data.len()
SliceLen(data) == data[2] - data[1]

\* for_bytes without the test of the three offsets
ForBytesNoOffsetTest(f) ==
    LET header == hash_header(f)
        table_data == deref_pointer(f, f.table_ptr, 4)
    IN  IF ~header.ok THEN header.err
        ELSE IF ~table_data.ok THEN table_data.err
        ELSE IF (SliceLen(table_data.data) - hash_items_offset(f)) % HashItemSize # 0
             THEN "DataError"
        ELSE "Ok"

\* for_bytes: "Ok", or the error it returns
for_bytes(f) ==
    LET header == hash_header(f)
        table_data == deref_pointer(f, f.table_ptr, 4)
    IN  IF ~header.ok THEN header.err
        ELSE IF ~table_data.ok THEN table_data.err
        ELSE IF \/ bloom_words_offset(f) > SliceLen(table_data.data)
                \/ hash_buckets_offset(f) > SliceLen(table_data.data)
                \/ hash_items_offset(f) > SliceLen(table_data.data)
             THEN "DataOffset"
        ELSE IF (SliceLen(table_data.data) - hash_items_offset(f)) % HashItemSize # 0
             THEN "DataError"
        ELSE "Ok"

\* the bytes get_u32(offset) asks data for
U32Range(offset) == <<offset, offset + U32Size>>

\* the bytes get_bloom_word(index) reads
BloomWordRange(f, index) == U32Range(bloom_words_offset(f) + index * U32Size)

\* the bytes get_hash(index) reads
HashRange(f, index) == U32Range(hash_buckets_offset(f) + index * U32Size)

\* the bytes get_hash_item(index) reads
HashItemRange(f, index) ==
    LET size == HashItemSize
        start == hash_items_offset(f) + size * index
        end == start + size
    IN  <<start, end>>

\* data.get(start..end) is Some
InData(f, range) == range[1] <= range[2] /\ range[2] <= f.data_len

\* a call of deref_pointer(pointer, alignment) on data of dp.data_len bytes
DerefPointer ==
    /\ dp.ret = [ok |-> FALSE, err |-> "none"]
    /\ dp' = [dp EXCEPT !.ret = deref_pointer(dp, dp.pointer, dp.alignment)]
    /\ UNCHANGED <<tbl, rpc, gn, lk, fb, conv>>

\* GvdbHashTable::for_bytes(data, table_ptr): the table can be read once it
\* has returned Ok
ForBytes ==
    /\ rpc = "closed"
    /\ fb.result = "none"
    /\ fb' = [fb EXCEPT !.result = for_bytes(fb)]
    /\ rpc' = IF for_bytes(fb) = "Ok" THEN "idle" ELSE "failed"
    /\ UNCHANGED <<tbl, gn, lk, conv, dp>>

----------------------------------------------------------------------------
(* GvdbReaderError::from.  A low-level error is [type], a guard error with  *)
(* its byte counts [type, actual, required]; a DataError carries its        *)
(* message as the text's kind and the number it prints                      *)

\* From<TryFromIntError>
FromTryFromIntError(err) == [kind |-> "DataOffset"]

\* From<safe_transmute::Error> with the two guard messages exchanged
FromTransmuteErrorSwapped(err) ==
    IF err.type = "Guard"
    THEN IF err.actual > err.required
         THEN [kind |-> "DataError", msg |-> "Missing bytes",
               n |-> err.actual - err.required]
         ELSE [kind |-> "DataError", msg |-> "unexpected trailing bytes",
               n |-> err.required - err.actual]
    ELSE IF err.type = "Unaligned"
         THEN [kind |-> "DataError", msg |-> "Unaligned data read", n |-> 0]
    ELSE [kind |-> "InvalidData"]

\* From<safe_transmute::Error>
FromTransmuteError(err) ==
    IF err.type = "Guard"
    THEN IF err.actual > err.required
         THEN [kind |-> "DataError", msg |-> "unexpected trailing bytes",
               n |-> err.actual - err.required]
         ELSE [kind |-> "DataError", msg |-> "Missing bytes",
               n |-> err.required - err.actual]
    ELSE IF err.type = "Unaligned"
         THEN [kind |-> "DataError", msg |-> "Unaligned data read", n |-> 0]
    ELSE [kind |-> "InvalidData"]

\* GvdbReaderError::from(err), by the type of err
From ==
    /\ conv.err.type # "none"
    /\ conv.out.kind = "none"
    /\ conv' = [conv EXCEPT !.out = IF conv.err.type = "TryFromIntError"
                                     THEN FromTryFromIntError(conv.err)
                                     ELSE FromTransmuteError(conv.err)]
    /\ UNCHANGED <<tbl, rpc, gn, lk, fb, dp>>

----------------------------------------------------------------------------
(* The tables the reader is given *)

\* a hash item as the file holds it
HashItem(hash_value, parent, key, typ, value) ==
    [hash_value |-> hash_value, parent |-> parent, key |-> key, key_err |-> "",
     typ |-> typ, value |-> value]

\* a table of no items, no buckets and no bloom words
EmptyTable ==
    [n_bloom_words |-> 0, n_buckets |-> 0, bloom_words |-> <<>>,
     hash_buckets |-> <<>>, hash_items |-> <<>>, data_len |-> 0]

\* the value pointer of item i (from 0) in the generated tables: 8 bytes at 8 * i
ValueAt(i) == [start |-> 8 * i, end |-> 8 * i + 8]

\* the parent values of a table of n items: none, every index, n and n + 1
ParentVals(n) == {NoParent} \cup {U32Of(i) : i \in 0..(n + 1)}

\* the table of one bucket and no bloom words with the given parents and keys
NamesTable(n, parent, key) ==
    [n_bloom_words |-> 0, n_buckets |-> 1, bloom_words |-> <<>>,
     hash_buckets |-> <<0>>,
     hash_items |-> [i \in 1..n |->
                       HashItem(djb_hash(key[i]), parent[i], key[i], "v", ValueAt(i - 1))],
     data_len |-> 8 * n]

\* tbl is a table with any choice of parents, valid or not
IsNamesTable ==
    \E n \in 0..MaxHashItems :
        \E parent \in [1..n -> ParentVals(n)], key \in [1..n -> Suffixes] :
            tbl = NamesTable(n, parent, key)

\* item i (from 0) reaches a root in at most `fuel` parent links
RECURSIVE ReachesRoot(_, _, _)
ReachesRoot(t, i, fuel) ==
    LET parent == t.hash_items[i + 1].parent
    IN  \/ parent = NoParent
        \/ /\ fuel > 0
           /\ U32Lt(parent, n_hash_items(t))
           /\ ReachesRoot(t, parent[2], fuel - 1)

\* the parent links form a forest
IsForest(t) == \A i \in 0..(n_hash_items(t) - 1) : ReachesRoot(t, i, n_hash_items(t))

\* the full key of item i (from 0) of a forest: the parent's full key, then
\* the item's own suffix
RECURSIVE FullKey(_, _)
FullKey(t, i) ==
    LET item == t.hash_items[i + 1]
    IN  IF item.parent = NoParent THEN item.key
        ELSE FullKey(t, item.parent[2]) \o item.key

\* the u32 word with exactly the bits of the set
RECURSIVE SumPow(_)
SumPow(bits) ==
    IF bits = {} THEN 0
    ELSE LET b == CHOOSE x \in bits : TRUE IN (2 ^ b) + SumPow(bits \ {b})

WordOfBits(bits) ==
    <<SumPow({b - 16 : b \in {x \in bits : x >= 16}}), SumPow({x \in bits : x < 16})>>

\* the bloom words as the assembler fills them for the given item hashes
BloomFill(hashes, n) ==
    [w \in 1..n |->
        WordOfBits(UNION {{h[2] % 32, ShiftAnd31(h, bloom_shift)} :
                          h \in {x \in hashes : BloomWordIndex(x, n) = w - 1}})]

\* the well-formed table of the forest (parent, key) with nb buckets and nw
\* bloom words: hash_value is the hash of the full key, the bucket array
\* gives each bucket's first item
WellFormedTable(n, parent, key, nb, nw) ==
    LET raw == NamesTable(n, parent, key)
        hash(i) == djb_hash(FullKey(raw, i - 1))
    IN  [n_bloom_words |-> nw, n_buckets |-> nb,
         bloom_words |-> BloomFill({hash(i) : i \in 1..n}, nw),
         hash_buckets |-> [b \in 1..nb |->
             Cardinality({i \in 1..n : U32Mod(hash(i), nb) < b - 1})],
         hash_items |-> [i \in 1..n |->
             HashItem(hash(i), parent[i], key[i], "v", ValueAt(i - 1))],
         data_len |-> 8 * n]

\* the items of a table are stored in the order of their buckets
BucketOrdered(t) ==
    \A i, j \in 1..n_hash_items(t) :
        i < j => U32Mod(t.hash_items[i].hash_value, t.n_buckets)
                 <= U32Mod(t.hash_items[j].hash_value, t.n_buckets)

\* value pointers of a file of data_len bytes: a good one, a start that is no
\* multiple of 8, a start after the end, an end after the data
ValuePtrs(data_len) ==
    {[start |-> 0, end |-> 8], [start |-> 4, end |-> 8],
     [start |-> 8, end |-> 0], [start |-> 0, end |-> data_len + 8]}

\* tbl is a well-formed table of root items, one of them with any value pointer
IsValuesTable ==
    \E n \in 1..MaxHashItems, nb \in 1..MaxHashBuckets, nw \in 0..MaxBloomWords :
        \E key \in [1..n -> Suffixes], i \in 1..n, ptr \in ValuePtrs(8 * n) :
            LET t == WellFormedTable(n, [j \in 1..n |-> NoParent], key, nb, nw)
            IN  /\ BucketOrdered(t)
                /\ tbl = [t EXCEPT !.hash_items[i].value = ptr]

\* the types of the generated items: a value and a list of names
Types == {"v", "L"}

\* the table t with the given types
WithTypes(t, typ) ==
    [t EXCEPT !.hash_items = [i \in 1..n_hash_items(t) |->
                                 [t.hash_items[i] EXCEPT !.typ = typ[i]]]]

\* tbl is a well-formed table of root items of any type, one entry of its
\* bucket array being any index up to n + 1, or such a table without buckets
IsTypedTable ==
    \E n \in 0..MaxHashItems, nw \in 0..MaxBloomWords :
        \E key \in [1..n -> Suffixes], typ \in [1..n -> Types] :
            \/ \E nb \in 1..MaxHashBuckets, b \in 1..MaxHashBuckets, first \in 0..(n + 1) :
                  b <= nb /\
                  LET t == WellFormedTable(n, [j \in 1..n |-> NoParent], key, nb, nw)
                  IN  /\ BucketOrdered(t)
                      /\ tbl = [WithTypes(t, typ) EXCEPT !.hash_buckets[b] = first]
            \/ tbl = WithTypes(WellFormedTable(n, [j \in 1..n |-> NoParent],
                                                key, 0, nw), typ)

\* the byte offsets of the generated files: the multiples of 4 up to 4 * MaxWords
MaxWords == 16
Offsets == {U32Size * i : i \in 0..MaxWords}

\* the number of whole items between the items' offset and the pointer's end
ItemsIn(f) ==
    IF f.table_ptr.end < hash_items_offset(f) THEN 0
    ELSE (f.table_ptr.end - hash_items_offset(f)) \div HashItemSize

\* the table that file f holds at its pointer: the header's buckets and bloom
\* words, every item a root of key "a"
FileTable(f) ==
    [WellFormedTable(ItemsIn(f), [i \in 1..ItemsIn(f) |-> NoParent],
                     [i \in 1..ItemsIn(f) |-> <<97>>],
                     f.header.n_buckets, f.header.n_bloom_words)
        EXCEPT !.data_len = f.data_len]

\* fb is a file of up to 4 * MaxWords bytes with a pointer anywhere in the
\* grid, not yet opened, and tbl is the table it holds
IsFile ==
    \E data_len \in Offsets, start \in Offsets, end \in Offsets,
       nb \in 0..MaxHashBuckets, nw \in 0..MaxBloomWords :
        /\ fb = [data_len |-> data_len, table_ptr |-> [start |-> start, end |-> end],
                 header |-> [n_bloom_words |-> nw, n_buckets |-> nb],
                 result |-> "none"]
        /\ tbl = FileTable(fb)

\* tbl is a well-formed table
IsWellFormedTable ==
    \E n \in 0..MaxHashItems, nb \in 1..MaxHashBuckets, nw \in 0..MaxBloomWords :
        \E parent \in [1..n -> ParentVals(n)], key \in [1..n -> Suffixes] :
            /\ IsForest(NamesTable(n, parent, key))
            /\ BucketOrdered(WellFormedTable(n, parent, key, nb, nw))
            /\ tbl = WellFormedTable(n, parent, key, nb, nw)

----------------------------------------------------------------------------
(* Specifications *)

WriterIdle ==
    /\ buckets = <<>>
    /\ items = <<>>
    /\ n_items = 0
    /\ panicked = FALSE
    /\ hist = <<>>

\* deref_pointer not called
NoDeref ==
    [data_len |-> 0, pointer |-> [start |-> 0, end |-> 0], alignment |-> 1,
     ret |-> [ok |-> FALSE, err |-> "none"]]

\* no error converted
NoConversion == [err |-> [type |-> "none"], out |-> [kind |-> "none"]]

\* a table that for_bytes has returned
Opened ==
    [data_len |-> 0, table_ptr |-> [start |-> 0, end |-> 0],
     header |-> [n_bloom_words |-> 0, n_buckets |-> 0], result |-> "Ok"]

ReaderStart ==
    /\ rpc = "idle"
    /\ fb = Opened
    /\ conv = NoConversion
    /\ dp = NoDeref
    /\ gn = [names |-> <<>>, inserted |-> 0, rounds |-> 0, result |-> "none"]
    /\ lk = [key |-> <<>>, res |-> [kind |-> "none"], reads |-> <<>>]

\* with_n_buckets(n): n empty buckets, no items
Init ==
    /\ \E n \in 1..MaxBuckets : buckets = [b \in 1..n |-> 0]
    /\ items = <<>>
    /\ n_items = 0
    /\ panicked = FALSE
    /\ hist = <<>>
    /\ tbl = EmptyTable
    /\ ReaderStart

Next ==
    \/ \E key \in Keys, value \in Values : Insert(key, value) /\ UNCHANGED rvars
    \/ \E key \in Keys : Remove(key) /\ UNCHANGED rvars

\* the writer: any sequence of insert and remove on a fresh table
Spec == Init /\ [][Next]_vars

\* with_n_buckets(n), n = 0 included
InitAnyBuckets ==
    /\ \E n \in 0..MaxBuckets : buckets = [b \in 1..n |-> 0]
    /\ items = <<>>
    /\ n_items = 0
    /\ panicked = FALSE
    /\ hist = <<>>
    /\ tbl = EmptyTable
    /\ ReaderStart

\* the writer on a fresh table of any number of buckets
SpecAnyBuckets == InitAnyBuckets /\ [][Next]_vars

NextR ==
    \/ GetNamesStart /\ UNCHANGED wvars
    \/ GetNamesRound /\ UNCHANGED wvars
    \/ GetNamesReturn /\ UNCHANGED wvars
    \/ \E key \in BytesUpTo(MaxKeyLen) : Lookup(key) /\ UNCHANGED wvars

InitNames == WriterIdle /\ IsNamesTable /\ ReaderStart

\* the reader on a table with any parent links: list() or one get
SpecNames == InitNames /\ [][NextR]_vars

NextN ==
    \/ GetNamesStart /\ UNCHANGED wvars
    \/ GetNamesRound /\ UNCHANGED wvars
    \/ GetNamesReturn /\ UNCHANGED wvars

\* list() on a table with any parent links, the call being run to its end
SpecNamesFair == InitNames /\ [][NextN]_vars /\ WF_vars(NextN)

InitLookup == WriterIdle /\ IsWellFormedTable /\ ReaderStart

\* the reader on a well-formed table: list() or one get
SpecLookup == InitLookup /\ [][NextR]_vars

InitValues == WriterIdle /\ IsValuesTable /\ ReaderStart

\* the reader on a table of root items whose value pointers may be bad
SpecValues == InitValues /\ [][NextR]_vars

\* the byte counts of the generated guard errors
MaxBytes == 9

\* the low-level errors: a failed integer conversion, and safe_transmute's
\* Guard, Unaligned, IncompatibleVecTarget and InvalidValue
LowLevelErrors ==
    {[type |-> "TryFromIntError"], [type |-> "Unaligned"],
     [type |-> "IncompatibleVecTarget"], [type |-> "InvalidValue"]}
    \cup {[type |-> "Guard", actual |-> a, required |-> r] :
              a \in 0..MaxBytes, r \in 0..MaxBytes}

InitErrors ==
    /\ WriterIdle
    /\ tbl = EmptyTable
    /\ rpc = "closed"
    /\ fb = Opened
    /\ gn = [names |-> <<>>, inserted |-> 0, rounds |-> 0, result |-> "none"]
    /\ lk = [key |-> <<>>, res |-> [kind |-> "none"], reads |-> <<>>]
    /\ \E err \in LowLevelErrors : conv = [err |-> err, out |-> [kind |-> "none"]]
    /\ dp = NoDeref

NextE == From /\ UNCHANGED wvars

\* the conversion of one low-level error
SpecErrors == InitErrors /\ [][NextE]_vars

InitTyped == WriterIdle /\ IsTypedTable /\ ReaderStart

\* the reader on a table of root items of several types, with any bucket array
SpecTyped == InitTyped /\ [][NextR]_vars

\* the lengths and offsets of the generated pointers
MaxDataLen == 9

\* the alignments deref_pointer is called with, and the other small powers of two
Alignments == {1, 2, 4, 8}

InitDeref ==
    /\ WriterIdle
    /\ tbl = EmptyTable
    /\ rpc = "closed"
    /\ fb = Opened
    /\ conv = NoConversion
    /\ gn = [names |-> <<>>, inserted |-> 0, rounds |-> 0, result |-> "none"]
    /\ lk = [key |-> <<>>, res |-> [kind |-> "none"], reads |-> <<>>]
    /\ \E data_len \in 0..MaxDataLen, start \in 0..(MaxDataLen + 1),
          end \in 0..(MaxDataLen + 1), alignment \in Alignments :
            dp = [data_len |-> data_len, pointer |-> [start |-> start, end |-> end],
                  alignment |-> alignment, ret |-> [ok |-> FALSE, err |-> "none"]]

NextD == DerefPointer /\ UNCHANGED wvars

\* one call of deref_pointer
SpecDeref == InitDeref /\ [][NextD]_vars

\* the reader before for_bytes
ReaderClosed ==
    /\ rpc = "closed"
    /\ conv = NoConversion
    /\ dp = NoDeref
    /\ gn = [names |-> <<>>, inserted |-> 0, rounds |-> 0, result |-> "none"]
    /\ lk = [key |-> <<>>, res |-> [kind |-> "none"], reads |-> <<>>]

InitForBytes == WriterIdle /\ IsFile /\ ReaderClosed

NextF ==
    \/ ForBytes /\ UNCHANGED wvars
    \/ NextR

\* the reader from for_bytes on: the table is opened, then list() or one get
SpecForBytes == InitForBytes /\ [][NextF]_vars

----------------------------------------------------------------------------
(* Writer: what the history says *)

Last(seq) == seq[Len(seq)]

\* the positions of hist that name key
OpsOn(key) == {i \in 1..Len(hist) : hist[i].key = key}

\* the last position of hist that names key (0 if none)
LastOpOn(key) ==
    IF OpsOn(key) = {} THEN 0
    ELSE CHOOSE i \in OpsOn(key) : \A j \in OpsOn(key) : j <= i

\* the bucket a key falls in
BucketOf(key) == hash_bucket(djb_hash(key))

\* the step just taken ended with this operation
JustDid(op) == Len(hist') = Len(hist) + 1 /\ Last(hist').op = op

----------------------------------------------------------------------------
(* C1: if the last operation naming k was insert(k, v), get(k) returns the  *)
(* item holding v, whatever colliding keys were inserted or removed since.  *)
C1_GetReturnsLastInsert ==
    \A key \in Keys :
        LET i == LastOpOn(key)
        IN  (i # 0 /\ hist[i].op = "insert") =>
                /\ get(key) # 0
                /\ items[get(key)].key = key
                /\ items[get(key)].value = hist[i].value

\* k inserted, then a colliding key inserted and removed again, k untouched
C1_Witness ==
    \E key \in Keys, other \in Keys :
        /\ key # other
        /\ BucketOf(key) = BucketOf(other)
        /\ \E i, j, l \in 1..Len(hist) :
            /\ i < j /\ j < l /\ i = LastOpOn(key)
            /\ hist[i].op = "insert"
            /\ hist[j].op = "insert" /\ hist[j].key = other
            /\ hist[l].op = "remove" /\ hist[l].key = other /\ hist[l].ret

(* C2: after any sequence of insert operations n_items() is the number of   *)
(* distinct keys inserted.                                                  *)
C2_CountIsDistinctKeys ==
    (\A i \in 1..Len(hist) : hist[i].op = "insert") =>
        n_items = Cardinality({hist[i].key : i \in 1..Len(hist)})

(* C3: insert(k, v1) immediately followed by insert(k, v2) leaves n_items   *)
(* as it was after the first insert, and get(k) then holds v2.              *)
C3_OverwriteStep ==
    (/\ Len(hist) >= 1
     /\ Last(hist).op = "insert"
     /\ JustDid("insert")
     /\ Last(hist').key = Last(hist).key) =>
        /\ n_items' = n_items
        /\ GetIn(buckets', items', Last(hist').key) # 0
        /\ items'[GetIn(buckets', items', Last(hist').key)].value = Last(hist').value

\* C3: every step that is the second of two inserts of one key is such a step
C3_Overwrite == [][C3_OverwriteStep]_vars

\* two inserts of one key in a row, with different values
C3_Witness ==
    /\ Len(hist) >= 2
    /\ hist[Len(hist) - 1].op = "insert" /\ hist[Len(hist)].op = "insert"
    /\ hist[Len(hist) - 1].key = hist[Len(hist)].key
    /\ hist[Len(hist) - 1].value # hist[Len(hist)].value
    /\ n_items >= 2

(* C4: when remove(k) returned true, get(k) right afterwards is None.       *)
C4_RemovedKeyIsGone ==
    (Len(hist) >= 1 /\ Last(hist).op = "remove" /\ Last(hist).ret) =>
        get(Last(hist).key) = 0

(* C5: remove(k) returns true iff get(k) was Some before the call; then     *)
(* n_items drops by exactly 1; when it returns false n_items and every      *)
(* chain are unchanged.                                                     *)
C5_RemoveStep ==
    JustDid("remove") =>
        /\ Last(hist').ret <=> (get(Last(hist').key) # 0)
        /\ Last(hist').ret => n_items' = n_items - 1
        /\ ~Last(hist').ret =>
              /\ n_items' = n_items
              /\ buckets' = buckets
              /\ items' = items

\* C5: every call of remove returns and counts as stated
C5_Remove == [][C5_RemoveStep]_vars

\* a remove that returned true and one that returned false have happened
C5_Witness ==
    /\ \E i \in 1..Len(hist) : hist[i].op = "remove" /\ hist[i].ret
    /\ \E i \in 1..Len(hist) : hist[i].op = "remove" /\ ~hist[i].ret

\* the concatenation over buckets b, b+1, ... of iter_bucket paired with b
RECURSIVE BucketsFrom(_)
BucketsFrom(b) ==
    IF b >= n_buckets THEN <<>>
    ELSE [i \in 1..Len(IterBucketAll(b).seq) |-> <<b, IterBucketAll(b).seq[i]>>]
         \o BucketsFrom(b + 1)

(* C6: iter() terminates and yields the chains of buckets 0, 1, ... in      *)
(* order, each item paired with its bucket; every stored item is yielded    *)
(* exactly once; iter_bucket(b) for b >= n_buckets yields nothing.          *)
C6_IterIsBucketThenChain ==
    /\ IterAll.done
    /\ \A b \in 0..(n_buckets - 1) : IterBucketAll(b).done
    /\ IterAll.seq = BucketsFrom(0)
    /\ {IterAll.seq[i][2] : i \in 1..Len(IterAll.seq)} = DOMAIN items
    /\ \A i, j \in 1..Len(IterAll.seq) :
          IterAll.seq[i][2] = IterAll.seq[j][2] => i = j
    /\ \A b \in n_buckets..(n_buckets + 1) : IterBucketAll(b).seq = <<>>

\* a chain of two in one bucket, and an item in a later bucket
C6_Witness ==
    /\ n_buckets >= 2
    /\ buckets[1] # 0 /\ items[buckets[1]].next # 0
    /\ \E b \in 2..n_buckets : buckets[b] # 0
    /\ Len(IterAll.seq) >= 3

----------------------------------------------------------------------------
(* Reader: what the format says of a table *)

\* the full keys of the items of a forest
StoredKeys(t) == {FullKey(t, i) : i \in 0..(n_hash_items(t) - 1)}

\* every parent is 0xffffffff or the index of an item
ParentsInRange(t) ==
    \A i \in 1..n_hash_items(t) :
        \/ t.hash_items[i].parent = NoParent
        \/ U32Lt(t.hash_items[i].parent, n_hash_items(t))

\* some item's parent links never reach a root, all parents being indices
HasParentCycle(t) ==
    /\ ParentsInRange(t)
    /\ \E i \in 0..(n_hash_items(t) - 1) : ~ReachesRoot(t, i, n_hash_items(t))

\* get_names has returned
ListReturned == rpc = "done" /\ gn.result # "none"

\* get_value has returned
GetReturned == rpc = "done" /\ lk.res.kind # "none"

(* C7: on a well-formed table get(k) is Some iff k is the full key of a     *)
(* stored item, and every name list() returns is found by get; also with    *)
(* keys stored as (parent, suffix) chains.                                  *)
C7_GetFindsExactlyStoredKeys ==
    /\ GetReturned =>
          (lk.res.kind = "Some" <=> lk.key \in StoredKeys(tbl))
    /\ (ListReturned /\ gn.result = "Ok") =>
          \A i \in 1..Len(gn.names) : get_value(tbl, gn.names[i][1]).kind = "Some"

(* C8: on a forest, in whatever order parents and children are stored,      *)
(* list() returns Ok with a name for every item; the round loop ends only   *)
(* when every item has a name.                                              *)
C8_ForestListsEveryItem ==
    IsForest(tbl) =>
        /\ ListReturned =>
              /\ gn.result = "Ok"
              /\ Len(gn.names) = n_hash_items(tbl)
              /\ \A i \in 1..Len(gn.names) : gn.names[i] # <<>>
        /\ (rpc = "names" /\ gn.inserted >= n_hash_items(tbl)) =>
              \A i \in 1..Len(gn.names) : gn.names[i] # <<>>

(* C9: the name list() gives an item with a parent is the parent's full key *)
(* followed by the item's suffix; the name of a root is its suffix.         *)
C9_NameIsParentThenSuffix ==
    rpc \in {"names", "done"} =>
        \A i \in 1..Len(gn.names) :
            gn.names[i] # <<>> =>
                gn.names[i][1] =
                    IF tbl.hash_items[i].parent = NoParent
                    THEN tbl.hash_items[i].key
                    ELSE FullKey(tbl, tbl.hash_items[i].parent[2]) \o tbl.hash_items[i].key

(* C10: on a table with a parent cycle list() returns InvalidData, with or  *)
(* without root items beside the cycle.                                     *)
C10_CycleIsInvalidData ==
    (ListReturned /\ HasParentCycle(tbl)) => gn.result = "InvalidData"

----------------------------------------------------------------------------
\* some item's parent is neither 0xffffffff nor below n_items
HasParentOutOfRange(t) == ~ParentsInRange(t)

(* C11: when some item's parent p has p >= n_items and p # 0xFFFFFFFF       *)
(* (p = n_items included), list() returns DataError.                        *)
C11_ParentOutOfRangeIsDataError ==
    (ListReturned /\ HasParentOutOfRange(tbl)) => gn.result = "DataError"

(* C12: on every accepted table, with items naming each other or themselves *)
(* as parent included, a lookup of any key returns: a value or None, after  *)
(* at most n_items nested check_name calls per candidate item.              *)
C12_LookupTerminates ==
    GetReturned => lk.res.kind \in {"Some", "None"}

----------------------------------------------------------------------------
\* the pointers the claim is about: 4-aligned start, start <= end <= len(data)
PointerInData(f) ==
    /\ f.table_ptr.start % 4 = 0
    /\ f.table_ptr.start <= f.table_ptr.end
    /\ f.table_ptr.end <= f.data_len

\* the three offsets are at or before the pointer's end
OffsetsFit(f) ==
    /\ bloom_words_offset(f) <= f.table_ptr.end
    /\ hash_buckets_offset(f) <= f.table_ptr.end
    /\ hash_items_offset(f) <= f.table_ptr.end

\* the table of no items, no buckets and no bloom words, at any offset
IsEmptyTableFile(f) ==
    /\ f.header = [n_bloom_words |-> 0, n_buckets |-> 0]
    /\ f.table_ptr.end = f.table_ptr.start + HashHeaderSize

(* C13: for a 4-aligned pointer with start <= end <= len(data), at any      *)
(* start, for_bytes returns Ok exactly when the three absolute offsets are  *)
(* <= end and (end - items_off) mod 24 = 0, DataOffset when an offset       *)
(* exceeds end, DataError when the remainder is no multiple of 24; the      *)
(* empty table after the file header is accepted, lists nothing and finds   *)
(* no key.                                                                  *)
C13_ForBytesAcceptsByAbsoluteOffsets ==
    (fb.result # "none" /\ PointerInData(fb)) =>
        /\ ~OffsetsFit(fb) => fb.result = "DataOffset"
        /\ (OffsetsFit(fb)
            /\ (fb.table_ptr.end - hash_items_offset(fb)) % HashItemSize # 0)
              => fb.result = "DataError"
        /\ (OffsetsFit(fb)
            /\ (fb.table_ptr.end - hash_items_offset(fb)) % HashItemSize = 0)
              => fb.result = "Ok"
        /\ IsEmptyTableFile(fb) =>
              /\ ListReturned => gn.result = "Ok" /\ gn.names = <<>>
              /\ GetReturned => lk.res.kind = "None"

----------------------------------------------------------------------------
\* the first item (from 0) whose key is key, -1 if there is none
FirstItemOf(t, key) ==
    IF \E i \in 1..n_hash_items(t) : t.hash_items[i].key = key
    THEN (CHOOSE i \in 1..n_hash_items(t) :
             /\ t.hash_items[i].key = key
             /\ \A j \in 1..(i - 1) : t.hash_items[j].key # key) - 1
    ELSE -1

\* the pointer breaks the format: start no multiple of 8, start after end, or
\* end after the data
BadValuePtr(t, pointer) ==
    \/ pointer.start % 8 # 0
    \/ pointer.start > pointer.end
    \/ pointer.end > t.data_len

(* C14: a lookup of a present key whose value pointer breaks the format     *)
(* reports a corruption error (DataAlignment or DataOffset), not None; a    *)
(* lookup returns None only when the key is absent.                         *)
C14_BadValuePointerIsAnError ==
    GetReturned =>
        /\ (FirstItemOf(tbl, lk.key) >= 0
            /\ BadValuePtr(tbl, tbl.hash_items[FirstItemOf(tbl, lk.key) + 1].value))
              => lk.res.kind \in {"DataAlignment", "DataOffset"}
        /\ lk.res.kind = "None" => FirstItemOf(tbl, lk.key) = -1

----------------------------------------------------------------------------
\* the hashes the items of t store
StoredHashes(t) == {t.hash_items[i].hash_value : i \in 1..n_hash_items(t)}

(* C15: when the bloom words are filled as the assembler fills them (bits   *)
(* h & 31 and (h >> bloom_shift) & 31 of word (h / 32) mod n_bloom_words,   *)
(* for every stored hash h), bloom_filter(h) is true for every stored hash; *)
(* with no bloom words it is true for every h.                              *)
C15_BloomFilterPassesStoredHashes ==
    tbl.bloom_words = BloomFill(StoredHashes(tbl), tbl.n_bloom_words) =>
        /\ \A h \in StoredHashes(tbl) : bloom_filter(tbl, h)
        /\ tbl.n_bloom_words = 0 =>
              \A key \in BytesUpTo(MaxKeyLen) : bloom_filter(tbl, djb_hash(key))

\* a lookup has passed a filter of two words, one item's bits being in word 1
C15_Witness ==
    /\ GetReturned
    /\ lk.res.kind = "Some"
    /\ tbl.n_bloom_words = 2
    /\ \E h \in StoredHashes(tbl) : BloomWordIndex(h, tbl.n_bloom_words) = 1

----------------------------------------------------------------------------
\* the bloom word of hash_value lacks a bit of its mask
BloomMisses(t, hash_value) ==
    /\ t.n_bloom_words > 0
    /\ \E b \in {hash_value[2] % 32, ShiftAnd31(hash_value, bloom_shift)} :
          ~Bit(t.bloom_words[BloomWordIndex(hash_value, t.n_bloom_words) + 1], b)

(* C16: with bloom words, buckets and at least one item, a get(key) whose   *)
(* bloom word lacks a mask bit of djb_hash(key) returns None without        *)
(* reading any bucket-array entry or hash item; in every lookup the bucket  *)
(* and item reads come after the bloom word has been read and has passed.   *)
C16_BloomRejectsBeforeAnyBucketRead ==
    (GetReturned /\ tbl.n_bloom_words > 0 /\ tbl.n_buckets > 0
     /\ n_hash_items(tbl) > 0) =>
        /\ BloomMisses(tbl, djb_hash(lk.key)) =>
              /\ lk.res.kind = "None"
              /\ \A i \in 1..Len(lk.reads) : lk.reads[i].read = "bloom_word"
        /\ \A i \in 1..Len(lk.reads) :
              lk.reads[i].read \in {"hash", "hash_item"} =>
                  /\ ~BloomMisses(tbl, djb_hash(lk.key))
                  /\ \E j \in 1..(i - 1) : lk.reads[j].read = "bloom_word"

\* a lookup was rejected by the filter of a table that has buckets and items
C16_Witness ==
    /\ GetReturned
    /\ tbl.n_bloom_words > 0 /\ tbl.n_buckets > 0 /\ n_hash_items(tbl) > 0
    /\ BloomMisses(tbl, djb_hash(lk.key))
    /\ lk.reads = <<[read |-> "bloom_word",
                     index |-> BloomWordIndex(djb_hash(lk.key), tbl.n_bloom_words)]>>

----------------------------------------------------------------------------
\* the bytes of "hello"
Hello == <<104, 101, 108, 108, 111>>

\* 5381 * 33^n + b1 * 33^(n-1) + ... + bn, unwrapped (below 2^31 up to 3 bytes)
RECURSIVE DjbPoly(_)
DjbPoly(key) ==
    IF key = <<>> THEN 5381
    ELSE DjbPoly(SubSeq(key, 1, Len(key) - 1)) * 33 + key[Len(key)]

\* the items (ids) of a bucket's chain
ChainOf(bucket) == {IterBucketAll(bucket).seq[i] : i \in 1..Len(IterBucketAll(bucket).seq)}

\* djb_hash is h0 = 5381, h = (h * 33 + b) mod 2^32, it gives hello_hash for
\* "hello", and every item the writer holds carries the hash of its key and
\* sits in the bucket of that hash
DjbHashIs(hello_hash) ==
    /\ \A key \in BytesUpTo(3) : djb_hash(key) = U32Of(DjbPoly(key))
    /\ \A key \in BytesUpTo(MaxKeyLen), b \in Bytes :
          djb_hash(Append(key, b)) = DjbStep(djb_hash(key), b)
    /\ djb_hash(Hello) = hello_hash
    /\ \A id \in DOMAIN items :
          /\ items[id].hash_value = djb_hash(items[id].key)
          /\ id \in ChainOf(U32Mod(djb_hash(items[id].key), n_buckets))

(* C17 as stated: djb_hash starts from 5381, steps h = (h * 33 + b) mod     *)
(* 2^32, is a function of the bytes alone, djb_hash("hello") = 0x0f0a1a95,  *)
(* and the writer files every key under that same value.                    *)
C17_DjbHashHelloAsStated == DjbHashIs(<<3850, 6805>>)

(* C17 amended: the same, with djb_hash("hello") = 0x0f923099.              *)
C17_DjbHashHello == DjbHashIs(<<3986, 12441>>)

\* the writer holds items in two buckets, each filed under its key's hash
C17_Witness ==
    /\ ~panicked
    /\ \E a, b \in DOMAIN items :
          /\ items[a].key # items[b].key
          /\ U32Mod(djb_hash(items[a].key), n_buckets)
             # U32Mod(djb_hash(items[b].key), n_buckets)
          /\ buckets[U32Mod(djb_hash(items[a].key), n_buckets) + 1] = a

----------------------------------------------------------------------------
\* GvdbReaderError::from has returned
Converted == conv.out.kind # "none"

(* C18: the conversion gives every low-level error one fixed kind: a failed *)
(* integer conversion is DataOffset; a size-guard failure is DataError      *)
(* reporting actual - required unexpected trailing bytes when actual >      *)
(* required and required - actual missing bytes otherwise; an unaligned     *)
(* transmute is DataError; every other transmute failure is InvalidData.    *)
C18_ErrorConversion ==
    Converted =>
        /\ conv.out.kind \in {"DataOffset", "DataError", "InvalidData"}
        /\ conv.err.type = "TryFromIntError" => conv.out = [kind |-> "DataOffset"]
        /\ (conv.err.type = "Guard" /\ conv.err.actual > conv.err.required) =>
              /\ conv.out.kind = "DataError"
              /\ conv.out.msg = "unexpected trailing bytes"
              /\ conv.out.n + conv.err.required = conv.err.actual
        /\ (conv.err.type = "Guard" /\ conv.err.actual <= conv.err.required) =>
              /\ conv.out.kind = "DataError"
              /\ conv.out.msg = "Missing bytes"
              /\ conv.out.n + conv.err.actual = conv.err.required
        /\ conv.err.type = "Unaligned" => conv.out.kind = "DataError"
        /\ conv.err.type \in {"IncompatibleVecTarget", "InvalidValue"} =>
              conv.out = [kind |-> "InvalidData"]

\* a guard error of four bytes too many was converted (the header followed by
\* "fail"), as in test::from
C18_Witness ==
    /\ Converted
    /\ conv.err.type = "Guard"
    /\ conv.err.actual = conv.err.required + 4
    /\ conv.out = [kind |-> "DataError", msg |-> "unexpected trailing bytes", n |-> 4]

----------------------------------------------------------------------------
\* what iter() yields (seq, over the items its), without the items of key
OtherItems(seq, its, key) == SelectSeq(seq, LAMBDA e : its[e[2]].key # key)

\* seq without its element at position i
Without(seq, i) == SubSeq(seq, 1, i - 1) \o SubSeq(seq, i + 1, Len(seq))

(* C19: insert(k, v) and remove(k) change nothing about the other keys: for *)
(* every k' # k get(k') is the same item before and after, iter() yields    *)
(* the items of the other keys in the same relative order (an item that is  *)
(* replaced gives its position to the new item, a removal takes exactly one *)
(* item out of the sequence), and the number of buckets does not change.    *)
C19_FrameStep ==
    \A before \in {IterAll.seq}, after \in {IterAll.seq'}, key \in {Last(hist').key} :
      (JustDid("insert") \/ JustDid("remove")) =>
        /\ \A other \in Keys \ {key} : get(other)' = get(other)
        /\ OtherItems(after, items', key) = OtherItems(before, items, key)
        /\ n_buckets' = n_buckets
        /\ \A old \in DOMAIN items \ DOMAIN items' :
              JustDid("insert") =>
                  /\ Len(after) = Len(before)
                  /\ \A i \in 1..Len(before) :
                        IF before[i][2] = old
                        THEN /\ after[i][1] = before[i][1]
                             /\ items'[after[i][2]].key = key
                             /\ items'[after[i][2]].value = Last(hist').value
                        ELSE after[i] = before[i]
        /\ JustDid("remove") =>
              IF Last(hist').ret
              THEN \E i \in 1..Len(before) :
                      /\ items[before[i][2]].key = key
                      /\ after = Without(before, i)
              ELSE after = before

\* C19: every insert and every remove is such a step
C19_Frame == [][C19_FrameStep]_vars

\* three keys are stored, two of them in one chain, after an overwrite and a
\* removal that returned true
C19_Witness ==
    /\ \E i \in 1..Len(hist) : hist[i].op = "remove" /\ hist[i].ret
    /\ \E i \in 2..Len(hist) :
          /\ hist[i].op = "insert"
          /\ \E j \in 1..(i - 1) : hist[j].op = "insert" /\ hist[j].key = hist[i].key
    /\ \E id \in DOMAIN items : items[id].next # 0

----------------------------------------------------------------------------
\* the step is one round of get_names' while loop
IsRound == rpc = "names" /\ gn.rounds' = gn.rounds + 1

\* the round ended the call with one of these errors
RoundEndedWith(errors) == rpc' = "done" /\ gn.result' \in errors

\* the rounds are at most n_items + 1, and the call returns
RoundsAreBounded ==
    /\ [](gn.rounds <= n_hash_items(tbl) + 1)
    /\ (rpc = "names") ~> (rpc = "done")

----------------------------------------------------------------------------
(* C21: check_name(item, key) is true exactly when the parent chain from    *)
(* item reconstructs key: the item's suffix is the tail of key, a root      *)
(* needs the suffix to be the whole key, any other item passes the key      *)
(* without that suffix to its parent.                                       *)
C21_CheckNameWalksTheChain ==
    GetReturned =>
        \A i \in 1..n_hash_items(tbl) :
            check_name(tbl, tbl.hash_items[i], lk.key) = "true"
                <=> FullKey(tbl, i - 1) = lk.key

----------------------------------------------------------------------------
\* the indices (from 0) table_lookup may return for key and typ: the items of
\* [first, last) of the key's bucket with the key's hash, a name check that
\* succeeds and the type
Candidates(t, key, typ) ==
    LET h == djb_hash(key)
        b == U32Mod(h, t.n_buckets)
        first == t.hash_buckets[b + 1]
        last == IF b = t.n_buckets - 1 THEN n_hash_items(t)
                ELSE Min(t.hash_buckets[b + 2], n_hash_items(t))
    IN  {i \in first..(last - 1) :
            /\ t.hash_items[i + 1].hash_value = h
            /\ check_name(t, t.hash_items[i + 1], key) = "true"
            /\ t.hash_items[i + 1].typ = typ}

----------------------------------------------------------------------------
\* deref_pointer has returned
Dereferenced == dp.ret # [ok |-> FALSE, err |-> "none"]

(* C23: deref_pointer(ptr, alignment), alignment a power of two, returns    *)
(* DataOffset when start > end; otherwise DataAlignment when start is no    *)
(* multiple of alignment (a low bit is set); otherwise DataOffset when end  *)
(* > len(data); otherwise exactly the bytes [start, end), which lie inside  *)
(* the data.                                                                *)
C23_DerefPointerOutcomes ==
    Dereferenced =>
        IF dp.pointer.start > dp.pointer.end
        THEN dp.ret = [ok |-> FALSE, err |-> "DataOffset"]
        ELSE IF dp.pointer.start % dp.alignment # 0
        THEN dp.ret = [ok |-> FALSE, err |-> "DataAlignment"]
        ELSE IF dp.pointer.end > dp.data_len
        THEN dp.ret = [ok |-> FALSE, err |-> "DataOffset"]
        ELSE /\ dp.ret = [ok |-> TRUE, data |-> <<dp.pointer.start, dp.pointer.end>>]
             /\ 0 <= dp.ret.data[1] /\ dp.ret.data[2] <= dp.data_len

\* a pointer that is both misaligned and reversed was refused as DataOffset,
\* the first test being start > end
C23_Witness ==
    /\ Dereferenced
    /\ dp.pointer.start > dp.pointer.end
    /\ dp.pointer.start % dp.alignment # 0
    /\ dp.ret = [ok |-> FALSE, err |-> "DataOffset"]

----------------------------------------------------------------------------
\* the bucket index of key cannot be computed: hash_bucket takes the
\* remainder by zero buckets
HashBucketPanics(key) == hash_bucket(djb_hash(key)) = -1

(* C24: on a table created with zero buckets, for every key get(k) is None, *)
(* remove(k) returns false and iter() yields nothing, with no arithmetic    *)
(* failure in the bucket index computation and n_items staying 0.           *)
C24_ZeroBucketsIsAnEmptyTable ==
    n_buckets = 0 =>
        /\ ~panicked
        /\ \A key \in Keys : ~HashBucketPanics(key)
        /\ \A i \in 1..Len(hist) : hist[i].op = "remove" => ~hist[i].ret
        /\ IterAll.seq = <<>>
        /\ n_items = 0

----------------------------------------------------------------------------
\* the bytes that read r of table_lookup touches in file f
ReadRange(f, r) ==
    CASE r.read = "bloom_word" -> BloomWordRange(f, r.index)
      [] r.read = "hash" -> HashRange(f, r.index)
      [] r.read = "hash_item" -> HashItemRange(f, r.index)

\* read r of table_lookup is of a word or item the layout of f has, inside
\* its part of the table
ReadInItsPart(f, r) ==
    LET range == ReadRange(f, r)
    IN  /\ InData(f, range)
        /\ r.read = "bloom_word" =>
              /\ r.index < f.header.n_bloom_words
              /\ bloom_words_offset(f) <= range[1]
              /\ range[2] <= bloom_words_end(f)
        /\ r.read = "hash" =>
              /\ r.index < f.header.n_buckets
              /\ hash_buckets_offset(f) <= range[1]
              /\ range[2] <= hash_items_offset(f)
        /\ r.read = "hash_item" =>
              /\ r.index < ItemsIn(f)
              /\ hash_items_offset(f) <= range[1]
              /\ range[2] <= f.table_ptr.end

(* C25: once for_bytes has returned Ok, every read of bloom_filter,         *)
(* table_lookup and get_names stays inside data: the bloom word read        *)
(* exists, the bucket entries read lie before items_off, end - items_off    *)
(* does not underflow, and every item of index < n_items() lies wholly in   *)
(* [items_off, table_ptr.end), which is within data.                        *)
C25_ReadsStayInsideData ==
    fb.result = "Ok" =>
        /\ hash_items_offset(fb) <= fb.table_ptr.end
        /\ fb.table_ptr.end <= fb.data_len
        /\ n_hash_items(tbl) = ItemsIn(fb)
        /\ \A index \in 0..(ItemsIn(fb) - 1) :
              /\ hash_items_offset(fb) <= HashItemRange(fb, index)[1]
              /\ HashItemRange(fb, index)[2] <= fb.table_ptr.end
              /\ InData(fb, HashItemRange(fb, index))
        /\ \A w \in 0..(fb.header.n_bloom_words - 1) :
              InData(fb, BloomWordRange(fb, w))
        /\ \A i \in 1..Len(lk.reads) : ReadInItsPart(fb, lk.reads[i])
        /\ gn.result # "none" => Len(gn.names) = ItemsIn(fb)

\* a table accepted at a start other than 0, and a lookup in it that read a
\* bloom word, bucket entries b and b + 1 and an item
C25_Witness ==
    /\ fb.result = "Ok"
    /\ fb.table_ptr.start > 0
    /\ \E i, j, k, l \in 1..Len(lk.reads) :
          /\ lk.reads[i].read = "bloom_word"
          /\ lk.reads[j].read = "hash"
          /\ lk.reads[k] = [read |-> "hash", index |-> lk.reads[j].index + 1]
          /\ lk.reads[l].read = "hash_item"

----------------------------------------------------------------------------
\* the chain of bucket b ends: following the next links from the head comes
\* to None, and passes no item twice
ChainIsFiniteAndAcyclic(b) ==
    /\ IterBucketAll(b).done
    /\ \A i, j \in 1..Len(IterBucketAll(b).seq) :
          i # j => IterBucketAll(b).seq[i] # IterBucketAll(b).seq[j]

(* C26: in every state reachable by insert and remove, every item in the    *)
(* chain of bucket b has djb_hash(key) mod n_buckets = b and stores         *)
(* hash_value = djb_hash(key); every chain is finite and acyclic, and no    *)
(* item is in two chains.                                                   *)
C26_ChainsHoldTheirBucketsItems ==
    /\ \A b \in 0..(n_buckets - 1) :
          /\ ChainIsFiniteAndAcyclic(b)
          /\ \A id \in ChainOf(b) :
                /\ hash_bucket(djb_hash(items[id].key)) = b
                /\ items[id].hash_value = djb_hash(items[id].key)
    /\ \A b, c \in 0..(n_buckets - 1) :
          b # c => ChainOf(b) \cap ChainOf(c) = {}

\* a chain of two items or more and an item in another bucket
C26_Witness ==
    /\ ~panicked
    /\ \E b, c \in 0..(n_buckets - 1) :
          /\ b # c
          /\ Len(IterBucketAll(b).seq) >= 2
          /\ Len(IterBucketAll(c).seq) >= 1

----------------------------------------------------------------------------
\* the number of items linked in the chains of buckets b, b + 1, ...
RECURSIVE LinkedFrom(_)
LinkedFrom(b) ==
    IF b >= n_buckets THEN 0
    ELSE Len(IterBucketAll(b).seq) + LinkedFrom(b + 1)

(* C27: in every state reachable by insert and remove, n_items() is the     *)
(* number of items linked in all bucket chains, which is the number of      *)
(* items iter() yields, and it is never negative.                           *)
C27_CountIsItemsLinked ==
    /\ IterAll.done
    /\ n_items = Len(IterAll.seq)
    /\ n_items = LinkedFrom(0)
    /\ n_items >= 0

\* items are counted after a second insert of a key, a remove that found its
\* key and a remove that found nothing
C27_Witness ==
    /\ n_items >= 1
    /\ \E i \in 1..Len(hist) : hist[i].op = "remove" /\ hist[i].ret
    /\ \E i \in 1..Len(hist) : hist[i].op = "remove" /\ ~hist[i].ret
    /\ \E i, j \in 1..Len(hist) :
          /\ i < j
          /\ hist[i].op = "insert" /\ hist[j].op = "insert"
          /\ hist[i].key = hist[j].key

====
